---------------------------- MODULE Spec2Model ----------------------------
(***************************************************************************)
(* Model of derive/src/compile_bytecode.rs: the py_compile_bytecode!       *)
(* input is validated (PyCompileInput::compile), dispatched on its source  *)
(* kind (CompilationSource::compile) and, for a directory, walked          *)
(* recursively (CompilationSource::compile_dir) into a map from qualified  *)
(* module name to FrozenModule.                                            *)
(*                                                                         *)
(* Strings are TLA+ strings; a path is the sequence of its components,     *)
(* which the file system resolves one by one.                              *)
(***************************************************************************)
EXTENDS Integers, Sequences, FiniteSets, TLC

VARIABLES
    metas,        \* the Meta nodes the `for meta in &self.metas` loop has not consumed
    module_name,  \* Option<String> of PyCompileInput::compile
    mode,         \* Option<compile::Mode> of PyCompileInput::compile
    source,       \* Option<CompilationSource> of PyCompileInput::compile
    fs,           \* the file system the build reads
    stack,        \* the activations of compile_dir, innermost last
    units,        \* the calls made to the external compiler (compile_string)
    bundle,       \* the HashMap<String, FrozenModule> returned on success
    error,        \* the Diagnostic message returned on failure
    pc            \* "parse", "walk", "ok", "err", "overflow"

vars == <<metas, module_name, mode, source, fs, stack, units, bundle, error, pc>>

---------------------------------------------------------------------------
(* Bounds *)

MaxMetas == 3     \* longest macro input, in Meta nodes
MaxFiles == 2     \* most files, over all directories of the tree

---------------------------------------------------------------------------
(* Option values *)

NoneVal == [some |-> FALSE, value |-> ""]
Some(v) == [some |-> TRUE, value |-> v]

---------------------------------------------------------------------------
(* std::path and str helpers, computed character by character *)

Char(s, i) == SubSeq(s, i, i)

RECURSIVE LastDot(_, _)
LastDot(s, i) ==
    IF i = 0 THEN 0
    ELSE IF Char(s, i) = "." THEN i
    ELSE LastDot(s, i - 1)

\* Path::file_stem of a file name: the part before the last dot; the whole
\* name when there is no dot or the only dot is the first character.
FileStem(name) ==
    LET d == LastDot(name, Len(name))
    IN  IF d <= 1 THEN name ELSE SubSeq(name, 1, d - 1)

\* Path::extension of a file name: the part after the last dot, None when
\* there is no dot or the only dot is the first character.
Extension(name) ==
    LET d == LastDot(name, Len(name))
    IN  IF d <= 1 THEN NoneVal ELSE Some(SubSeq(name, d + 1, Len(name)))

Whitespace == {" ", "\n", "\t", "\r"}

RECURSIVE TrimStart(_)
TrimStart(s) ==
    IF Len(s) > 0 /\ Char(s, 1) \in Whitespace
    THEN TrimStart(SubSeq(s, 2, Len(s)))
    ELSE s

RECURSIVE TrimEnd(_)
TrimEnd(s) ==
    IF Len(s) > 0 /\ Char(s, Len(s)) \in Whitespace
    THEN TrimEnd(SubSeq(s, 1, Len(s) - 1))
    ELSE s

\* str::trim
Trim(s) == TrimEnd(TrimStart(s))

\* A path is the sequence of its components below the root directory "/",
\* as Path::components yields them: separators and "." components dropped,
\* ".." kept. Every path of a build is absolute, $CARGO_MANIFEST_DIR being so.
RECURSIVE Split(_, _, _)
Split(s, i, cur) ==
    IF i > Len(s) THEN <<cur>>
    ELSE IF Char(s, i) = "/" THEN <<cur>> \o Split(s, i + 1, "")
    ELSE Split(s, i + 1, cur \o Char(s, i))

\* Path::new(s).components()
Components(s) == SelectSeq(Split(s, 1, ""), LAMBDA c : c # "" /\ c # ".")

\* Path::join / PathBuf::push: an absolute argument replaces the base.
PathJoin(base, rel) ==
    IF Len(rel) > 0 /\ Char(rel, 1) = "/" THEN Components(rel)
    ELSE base \o Components(rel)

\* Path::to_string_lossy
RECURSIVE to_string_lossy(_)
to_string_lossy(path) ==
    IF path = <<>> THEN ""
    ELSE "/" \o Head(path) \o to_string_lossy(Tail(path))

RECURSIVE Normalize(_, _)
Normalize(comps, acc) ==
    IF comps = <<>> THEN acc
    ELSE IF Head(comps) = ".."
    THEN Normalize(Tail(comps),
                   IF acc = <<>> THEN acc ELSE SubSeq(acc, 1, Len(acc) - 1))
    ELSE Normalize(Tail(comps), Append(acc, Head(comps)))

\* The place a path names: its components with ".." resolved, as the
\* operating system resolves them.
Canon(path) == Normalize(path, <<>>)

\* Path::file_name of a listed entry: its last component.
FileName(path) == path[Len(path)]

\* Path::parent of a listed entry: the path without its last component.
ParentPath(path) == SubSeq(path, 1, Len(path) - 1)

---------------------------------------------------------------------------
(* The file system: directories and files by resolved path *)

\* Bytes that are not valid UTF-8. As the content of a file,
\* fs::read_to_string fails on them; as the stem of a name, OsStr::to_str does.
InvalidUtf8 == "<not utf-8>"

\* OsStr::to_str
to_str(s) == IF s = InvalidUtf8 THEN NoneVal ELSE Some(s)

\* Path::is_dir
is_dir(f, path) == Canon(path) \in f.dirs

\* fs::read_to_string: the text of the regular file at path, None on any error
\* (no such file, a directory, content that is not UTF-8).
read_to_string(f, path) ==
    LET hit == {e \in f.files : e.path = Canon(path)}
    IN  IF hit = {} THEN NoneVal
        ELSE LET e == CHOOSE x \in hit : TRUE
             IN  IF e.text = InvalidUtf8 THEN NoneVal ELSE Some(e.text)

\* fs::read_dir: the file names listed in the directory at path (in no
\* particular order), None when path is no directory.
read_dir(f, path) ==
    LET c == Canon(path)
        all == f.dirs \cup {e.path : e \in f.files}
        below == {q \in all : Len(q) = Len(c) + 1 /\ SubSeq(q, 1, Len(c)) = c}
    IN  IF is_dir(f, path)
        THEN [some |-> TRUE, value |-> {q[Len(q)] : q \in below}]
        ELSE [some |-> FALSE, value |-> {}]

\* $CARGO_MANIFEST_DIR, and the directories and files a build may find below it.
ManifestDir == Components("/m")
TreeRoot == Components("/m/lib")
DirA == Components("/m/lib/a")
DirB == Components("/m/lib/a/b")
DirShapes ==
    { {ManifestDir, TreeRoot},
      {ManifestDir, TreeRoot, DirA, DirB} }

File(dir, name, text) == [path |-> Append(dir, name), text |-> text]

\* The files a build may find: sources, a source the compiler rejects, a
\* text file, a file without extension, a source whose name is not UTF-8,
\* and .pylink files that name a sibling source, a sibling text
\* file, a sibling .pylink file, a sub-directory, their own directory, the
\* directory above, or that cannot be read.
FileMenu ==
    { File(ManifestDir, "main.py", "x = 1"),
      File(TreeRoot, "a.py", "x = 1"),
      File(TreeRoot, "__init__.py", "z = 3"),
      File(TreeRoot, "bad.py", "("),
      File(TreeRoot, "n.txt", "notes"),
      File(TreeRoot, "README", "read me"),
      File(TreeRoot, InvalidUtf8 \o ".py", "x = 1"),
      File(TreeRoot, "b.pylink", " a.py\n"),
      File(TreeRoot, "t.pylink", "n.txt\n"),
      File(TreeRoot, "k.pylink", "d.pylink"),
      File(TreeRoot, "d.pylink", "a\n"),
      File(TreeRoot, "p.pylink", InvalidUtf8),
      File(DirA, "__init__.py", "y = 2"),
      File(DirA, "b.py", "y = 2"),
      File(DirB, "c.py", "w = 4"),
      File(DirB, "l.pylink", ".\n"),
      File(DirB, "u.pylink", "..") }

\* The deepest nesting of compile_dir the model follows: the number of
\* directories there are. A deeper nesting holds some directory twice.
MaxDepth == Cardinality(UNION DirShapes)

RECURSIVE PickUpTo(_, _)
PickUpTo(S, k) ==
    IF k = 0 THEN {{}}
    ELSE LET P == PickUpTo(S, k - 1)
         IN  P \cup {p \cup {x} : p \in P, x \in S}

FileSystems ==
    LET fits(G, D) == \A e \in G : ParentPath(e.path) \in D
    IN  { x \in { [dirs |-> D, files |-> G] :
                    D \in DirShapes, G \in PickUpTo(FileMenu, MaxFiles) } :
            fits(x.files, x.dirs) }

\* Before CompilationSource::compile reads it, nothing of the file system is known.
Unread == [dirs |-> {}, files |-> {}]

---------------------------------------------------------------------------
(* The external compiler *)

\* compile::Mode's FromStr
ParseMode(s) ==
    IF s = "exec" THEN Some("Exec")
    ELSE IF s = "eval" THEN Some("Eval")
    ELSE IF s = "single" THEN Some("Single")
    ELSE NoneVal

ModeParseError == "mode should be 'exec', 'eval', or 'single'"

\* compile::compile(source, mode, module_name, 0): a CodeObject or an error.
\* The compiler is opaque; one text stands for the sources it rejects.
CompileOk(text, md) == text # "("
CodeObject(text, md, name) == [source |-> text, mode |-> md, source_path |-> name]

\* CompilationSource::compile_string
compile_string(text, md, name) ==
    IF CompileOk(text, md)
    THEN [ok |-> TRUE, code |-> CodeObject(text, md, name), error |-> ""]
    ELSE [ok |-> FALSE, code |-> CodeObject("", md, name), error |-> "Compile error"]

FrozenModule(code, package) == [code |-> code, package |-> package]

\* What the external compiler was asked: one record per compile_string call.
Unit(path, parent, name, text, md, package) ==
    [path |-> path, parent |-> parent, name |-> name, source |-> text,
     mode |-> md, package |-> package]

---------------------------------------------------------------------------
(* PyCompileInput::compile: the validation loop *)

\* syn::Meta: a name = literal pair, or some other form of Meta node.
NameValue(ident, ty, value) ==
    [form |-> "NameValue", ident |-> ident, lit |-> [ty |-> ty, value |-> value]]

MetaUniverse ==
    { NameValue("source", "Str", "x = 1"),
      NameValue("source", "Int", "1"),
      NameValue("file", "Str", "lib"),
      NameValue("file", "Str", "main.py"),
      NameValue("dir", "Str", "lib"),
      NameValue("dir", "Str", "main.py"),
      NameValue("mode", "Str", "eval"),
      NameValue("mode", "Str", "bogus"),
      NameValue("mode", "Int", "1"),
      NameValue("module_name", "Str", "m"),
      NameValue("module_name", "Int", "1"),
      NameValue("opt", "Str", "1"),
      [form |-> "Path", ident |-> "source", lit |-> [ty |-> "Str", value |-> ""]] }

RECURSIVE SeqsUpTo(_, _)
SeqsUpTo(S, k) ==
    IF k = 0 THEN {<<>>}
    ELSE LET P == SeqsUpTo(S, k - 1)
         IN  P \cup {Append(q, x) : q \in P, x \in S}

\* Option<CompilationSource>: None, or the kind with its path or code.
NoSource == [kind |-> "None", arg |-> ""]
CompilationSource(kind, arg) == [kind |-> kind, arg |-> arg]

DuplicateSource == "Cannot have more than one source"

\* assert_source_empty, were it to accept a second source.
assert_source_emptyAlways(src) == TRUE

\* assert_source_empty: Ok(()) exactly when no source was set yet.
assert_source_empty(src) == src.kind = "None"

\* A source, file or dir pair: the duplicate check comes first, then the literal.
SourceMeta(st, m, kind) ==
    IF ~assert_source_empty(st.source)
    THEN [st EXCEPT !.error = DuplicateSource]
    ELSE IF m.lit.ty # "Str"
    THEN [st EXCEPT !.error = "source must be a string"]
    ELSE [st EXCEPT !.source = CompilationSource(kind, m.lit.value)]

\* One iteration of `for meta in &self.metas`: the locals after it, and the
\* message of the error it bails with ("" when it does not).
MetaStep(st, m) ==
    IF m.form # "NameValue" THEN st
    ELSE IF m.ident = "mode"
    THEN IF m.lit.ty # "Str"
         THEN [st EXCEPT !.error = "mode must be a string"]
         ELSE IF ParseMode(m.lit.value).some
              THEN [st EXCEPT !.mode = ParseMode(m.lit.value)]
              ELSE [st EXCEPT !.error = ModeParseError]
    ELSE IF m.ident = "module_name"
    THEN IF m.lit.ty # "Str"
         THEN [st EXCEPT !.error = "module_name must be string"]
         ELSE [st EXCEPT !.module_name = Some(m.lit.value)]
    ELSE IF m.ident = "source" THEN SourceMeta(st, m, "SourceCode")
    ELSE IF m.ident = "file" THEN SourceMeta(st, m, "File")
    ELSE IF m.ident = "dir" THEN SourceMeta(st, m, "Dir")
    ELSE st

Fail(msg) ==
    /\ pc' = "err"
    /\ error' = msg

\* The loop body, for the next Meta node. An error leaves the node in place.
ParseMeta ==
    /\ pc = "parse"
    /\ metas # <<>>
    /\ LET st == MetaStep([module_name |-> module_name, mode |-> mode,
                           source |-> source, error |-> ""], Head(metas))
       IN  IF st.error # ""
           THEN /\ Fail(st.error)
                /\ UNCHANGED <<metas, module_name, mode, source>>
           ELSE /\ metas' = Tail(metas)
                /\ module_name' = st.module_name
                /\ mode' = st.mode
                /\ source' = st.source
                /\ UNCHANGED <<pc, error>>
    /\ UNCHANGED <<fs, stack, units, bundle>>

\* mode.unwrap_or(compile::Mode::Exec)
RequestMode == IF mode.some THEN mode.value ELSE "Exec"

\* module_name.unwrap_or_else(|| "frozen".to_string())
RequestName == IF module_name.some THEN module_name.value ELSE "frozen"

\* source.ok_or_else(..)?: no source key in the whole input.
MissingSource ==
    /\ pc = "parse"
    /\ metas = <<>>
    /\ source.kind = "None"
    /\ Fail("Must have either file or source in py_compile_bytecode!()")
    /\ UNCHANGED <<metas, module_name, mode, source, fs, stack, units, bundle>>

---------------------------------------------------------------------------
(* CompilationSource::compile_dir *)

\* One activation of compile_dir: its arguments, the directory entries the
\* `for entry in paths` loop has not reached, and its code_map.
Frame(path, parent, md, names) ==
    [path |-> path, parent |-> parent, mode |-> md, todo |-> names,
     code_map |-> <<>>]

\* format!("{}{}", parent, module_name): the prefix handed to the recursive call.
ChildPrefix(parent, stem) == parent \o stem

\* The qualified name of a leaf, were the dot put before the stem even
\* under an empty parent.
ModuleNameDotted(parent, stem) ==
    IF stem = "__init__" THEN parent ELSE parent \o "." \o stem

\* The qualified name of a leaf, were __init__ named like any other file.
ModuleNameOwnInit(parent, stem) ==
    IF parent = "" THEN stem ELSE parent \o "." \o stem

\* The qualified name of a leaf: the parent for __init__, else the stem,
\* dot-joined under a non-empty parent.
ModuleName(parent, stem) ==
    IF stem = "__init__" THEN parent
    ELSE IF parent = "" THEN stem
    ELSE parent \o "." \o stem

\* path.parent().unwrap().join(s.trim()): what a .pylink file points to.
LinkTargetUntrimmed(path, s) == PathJoin(ParentPath(path), s)
LinkTarget(path, s) == PathJoin(ParentPath(path), Trim(s))

\* FilePath, were the target of a .pylink file classified by its own
\* extension like a listed entry.
FilePathReclassified(f, path) ==
    LET ext == Extension(FileName(path))
        s == read_to_string(f, path)
        t == LinkTarget(path, s.value)
        text == Extension(FileName(t))
    IN  IF ext = Some("py") THEN [kind |-> "path", path |-> path]
        ELSE IF ext = NoneVal /\ is_dir(f, path) THEN [kind |-> "path", path |-> path]
        ELSE IF ext = Some("pylink")
        THEN IF ~s.some THEN [kind |-> "error", path |-> path]
             ELSE IF text = Some("py") \/ is_dir(f, t) THEN [kind |-> "path", path |-> t]
             ELSE [kind |-> "skip", path |-> path]
        ELSE [kind |-> "skip", path |-> path]

\* The path an entry stands for: itself for a .py file or a directory without
\* extension, the trimmed content joined to its directory for a .pylink file.
\* kind is "path", "skip" (the `_ => continue` arm) or "error".
FilePath(f, path) ==
    LET ext == Extension(FileName(path))
    IN  IF ext = Some("py") THEN [kind |-> "path", path |-> path]
        ELSE IF ext = NoneVal /\ is_dir(f, path) THEN [kind |-> "path", path |-> path]
        ELSE IF ext = Some("pylink")
        THEN LET s == read_to_string(f, path)
             IN  IF s.some
                 THEN [kind |-> "path", path |-> LinkTarget(path, s.value)]
                 ELSE [kind |-> "error", path |-> path]
        ELSE [kind |-> "skip", path |-> path]

NoCode == CodeObject("", "Exec", "")

Effect(act, err, filepath, parent, name, text, code, package, called) ==
    [act |-> act, error |-> err, filepath |-> filepath, parent |-> parent,
     name |-> name, source |-> text, code |-> code, package |-> package,
     called |-> called]

\* One iteration of the loop of compile_dir, for the entry called name of the
\* activation fr: what it does ("skip", "error", "recurse", "insert") and with what.
EntryEffect(f, fr, name) ==
    LET path == Append(fr.path, name)
        stem == FileStem(name)
        fp == FilePath(f, path)
    IN  IF ~to_str(stem).some
        THEN Effect("error", "Couldn't get module name from path", path, fr.parent,
                    "", "", NoCode, FALSE, FALSE)
        ELSE IF fp.kind = "skip"
        THEN Effect("skip", "", path, fr.parent, "", "", NoCode, FALSE, FALSE)
        ELSE IF fp.kind = "error"
        THEN Effect("error", "Couldn't read pylink file", path, fr.parent,
                    "", "", NoCode, FALSE, FALSE)
        ELSE IF is_dir(f, fp.path)
        THEN Effect("recurse", "", fp.path, ChildPrefix(fr.parent, stem),
                    "", "", NoCode, FALSE, FALSE)
        ELSE LET text == read_to_string(f, fp.path)
                 is_init == stem = "__init__"
                 qname == ModuleName(fr.parent, stem)
                 c == compile_string(text.value, fr.mode, qname)
             IN  IF ~text.some
                 THEN Effect("error", "Error reading file", fp.path, fr.parent,
                             "", "", NoCode, FALSE, FALSE)
                 ELSE IF ~c.ok
                 THEN Effect("error", c.error, fp.path, fr.parent,
                             qname, text.value, NoCode, is_init, TRUE)
                 ELSE Effect("insert", "", fp.path, fr.parent,
                             qname, text.value, c.code, is_init, TRUE)

\* The compile_string call an iteration made, if it made one.
Called(fr, name, e) ==
    IF e.called
    THEN {Unit(Append(fr.path, name), fr.parent, e.name, e.source, fr.mode, e.package)}
    ELSE {}

Top == stack[Len(stack)]

Advance(name) == [stack EXCEPT ![Len(stack)].todo = @ \ {name}]

\* The call compile_dir(path, parent, mode) up to its loop: fs::read_dir, and
\* on success a new activation on top of stk.
CallCompileDir(f, stk, path, parent, md) ==
    LET ls == read_dir(f, path)
    IN  IF ls.some
        THEN /\ stack' = Append(stk, Frame(path, parent, md, ls.value))
             /\ pc' = "walk"
             /\ UNCHANGED error
        ELSE /\ Fail("Error listing dir")
             /\ stack' = <<>>

\* `_ => continue`: an entry that is neither .py, .pylink nor a directory.
SkipEntry ==
    /\ pc = "walk"
    /\ \E name \in Top.todo :
          /\ EntryEffect(fs, Top, name).act = "skip"
          /\ stack' = Advance(name)
    /\ UNCHANGED <<metas, module_name, mode, source, fs, units, bundle, error, pc>>

\* An iteration that returns early with `?`: the whole walk is abandoned.
EntryError ==
    /\ pc = "walk"
    /\ \E name \in Top.todo :
          LET e == EntryEffect(fs, Top, name)
          IN  /\ e.act = "error"
              /\ Fail(e.error)
              /\ units' = units \cup Called(Top, name, e)
    /\ stack' = <<>>
    /\ UNCHANGED <<metas, module_name, mode, source, fs, bundle>>

\* filepath.is_dir(): the recursive call.
EnterDir ==
    /\ pc = "walk"
    /\ Len(stack) < MaxDepth
    /\ \E name \in Top.todo :
          LET e == EntryEffect(fs, Top, name)
          IN  /\ e.act = "recurse"
              /\ CallCompileDir(fs, Advance(name), e.filepath, e.parent, Top.mode)
    /\ UNCHANGED <<metas, module_name, mode, source, fs, units, bundle>>

\* The recursive call at the depth where the model stops following it. With
\* more activations than the tree has directories, one directory is being
\* walked inside its own walk, and the walk of it starts the same walk again.
Overflow ==
    /\ pc = "walk"
    /\ Len(stack) = MaxDepth
    /\ \E name \in Top.todo : EntryEffect(fs, Top, name).act = "recurse"
    /\ pc' = "overflow"
    /\ stack' = <<>>
    /\ UNCHANGED <<metas, module_name, mode, source, fs, units, bundle, error>>

\* code_map.insert(module_name, FrozenModule { code, package: is_init })
InsertUnit ==
    /\ pc = "walk"
    /\ \E name \in Top.todo :
          LET e == EntryEffect(fs, Top, name)
          IN  /\ e.act = "insert"
              /\ stack' = [Advance(name) EXCEPT ![Len(stack)].code_map =
                              (e.name :> FrozenModule(e.code, e.package)) @@ @]
              /\ units' = units \cup Called(Top, name, e)
    /\ UNCHANGED <<metas, module_name, mode, source, fs, bundle, error, pc>>

\* Ok(code_map) of a recursive call: code_map.extend(..) in the caller.
ReturnDir ==
    /\ pc = "walk"
    /\ Len(stack) > 1
    /\ Top.todo = {}
    /\ stack' = [SubSeq(stack, 1, Len(stack) - 1)
                   EXCEPT ![Len(stack) - 1].code_map = Top.code_map @@ @]
    /\ UNCHANGED <<metas, module_name, mode, source, fs, units, bundle, error, pc>>

\* Ok(code_map) of the outermost call: the map compile returns.
FinishWalk ==
    /\ pc = "walk"
    /\ Len(stack) = 1
    /\ Top.todo = {}
    /\ bundle' = Top.code_map
    /\ pc' = "ok"
    /\ stack' = <<>>
    /\ UNCHANGED <<metas, module_name, mode, source, fs, units, error>>

---------------------------------------------------------------------------
(* CompilationSource::compile *)

\* hashmap! { module_name => FrozenModule { code: compile_string(..)?, package: false } }
CompileOne(path, text) ==
    LET c == compile_string(text, RequestMode, RequestName)
    IN  /\ units' = units \cup {Unit(path, "", RequestName, text, RequestMode, FALSE)}
        /\ IF c.ok
           THEN /\ bundle' = (RequestName :> FrozenModule(c.code, FALSE))
                /\ pc' = "ok"
                /\ UNCHANGED error
           ELSE /\ Fail(c.error)
                /\ UNCHANGED bundle

Ready ==
    /\ pc = "parse"
    /\ metas = <<>>

\* CompilationSourceKind::SourceCode(code)
CompileSourceCode ==
    /\ Ready
    /\ source.kind = "SourceCode"
    /\ CompileOne(<<>>, source.arg)
    /\ UNCHANGED <<metas, module_name, mode, source, fs, stack>>

\* CompilationSourceKind::File(rel_path): a directory is handed to compile_dir,
\* a file is read and compiled under module_name.
CompileFile ==
    /\ Ready
    /\ source.kind = "File"
    /\ \E f \in FileSystems :
          LET path == PathJoin(ManifestDir, source.arg)
              text == read_to_string(f, path)
          IN  /\ fs' = f
              /\ IF is_dir(f, path)
                 THEN /\ CallCompileDir(f, <<>>, path, to_string_lossy(path), "Exec")
                      /\ UNCHANGED <<units, bundle>>
                 ELSE IF text.some
                 THEN /\ CompileOne(path, text.value)
                      /\ UNCHANGED stack
                 ELSE /\ Fail("Error reading file")
                      /\ UNCHANGED <<stack, units, bundle>>
    /\ UNCHANGED <<metas, module_name, mode, source>>

\* CompilationSourceKind::Dir(rel_path)
CompileDirRequest ==
    /\ Ready
    /\ source.kind = "Dir"
    /\ \E f \in FileSystems :
          /\ fs' = f
          /\ CallCompileDir(f, <<>>, PathJoin(ManifestDir, source.arg), "", RequestMode)
    /\ UNCHANGED <<metas, module_name, mode, source, units, bundle>>

---------------------------------------------------------------------------
(* The specification *)

Init ==
    /\ metas \in SeqsUpTo(MetaUniverse, MaxMetas)
    /\ module_name = NoneVal
    /\ mode = NoneVal
    /\ source = NoSource
    /\ fs = Unread
    /\ stack = <<>>
    /\ units = {}
    /\ bundle = <<>>
    /\ error = ""
    /\ pc = "parse"

Next ==
    \/ ParseMeta
    \/ MissingSource
    \/ CompileSourceCode
    \/ CompileFile
    \/ CompileDirRequest
    \/ SkipEntry
    \/ EntryError
    \/ EnterDir
    \/ Overflow
    \/ InsertUnit
    \/ ReturnDir
    \/ FinishWalk

Spec == Init /\ [][Next]_vars

---------------------------------------------------------------------------
(* Vocabulary of the properties *)

Terminal == pc \in {"ok", "err", "overflow"}

\* The path a file or dir request names.
RequestPath == PathJoin(ManifestDir, source.arg)

\* The request was handed to compile_dir: a dir request, or a file request
\* whose path is a directory.
FellBack == source.kind = "File" /\ fs # Unread /\ is_dir(fs, RequestPath)
Walked == (source.kind = "Dir" /\ fs # Unread) \/ FellBack

IsLink(name) == Extension(name) = Some("pylink")
IsSource(name) == Extension(name) = Some("py")
NoLinks == \A e \in fs.files : ~IsLink(FileName(e.path))

\* The stems of the path segments of a unit below the tree root.
RelStems(u) ==
    LET rel == SubSeq(u.path, Len(RequestPath) + 1, Len(u.path))
    IN  [i \in 1..Len(rel) |-> FileStem(rel[i])]

RECURSIVE DotJoin(_)
DotJoin(segs) ==
    IF segs = <<>> THEN ""
    ELSE IF Len(segs) = 1 THEN segs[1]
    ELSE segs[1] \o "." \o DotJoin(Tail(segs))

\* The name compile_dir gives a unit when the walk starts with an empty prefix.
RECURSIVE PrefixOf(_, _)
PrefixOf(stems, parent) ==
    IF Len(stems) <= 1 THEN parent
    ELSE PrefixOf(Tail(stems), ChildPrefix(parent, Head(stems)))
DirRequestName(u) ==
    LET stems == RelStems(u)
    IN  ModuleName(PrefixOf(stems, ""), stems[Len(stems)])

\* The keys of the name = literal pairs of the whole input: the one already
\* taken as the source, and those of the nodes not consumed.
KeyOfKind(kind) ==
    IF kind = "SourceCode" THEN "source"
    ELSE IF kind = "File" THEN "file" ELSE "dir"
SourceKeys == {"source", "file", "dir"}
PairsLeft == {i \in 1..Len(metas) : metas[i].form = "NameValue"}
KeysGiven ==
    (IF source.kind = "None" THEN {} ELSE {KeyOfKind(source.kind)})
        \cup {metas[i].ident : i \in PairsLeft}
BothSourceAndFile == {"source", "file"} \subseteq KeysGiven

\* A pair the loop bails on for its value alone.
Malformed(m) ==
    /\ m.form = "NameValue"
    /\ \/ m.ident \in SourceKeys \cup {"mode", "module_name"} /\ m.lit.ty # "Str"
       \/ m.ident = "mode" /\ m.lit.ty = "Str" /\ m.lit.value \notin {"exec", "eval", "single"}

\* Where, among the nodes not consumed, the second source, file or dir pair
\* of the input stands (0 when there is none).
SourcePairsLeft == {i \in PairsLeft : metas[i].ident \in SourceKeys}
SecondSourceAt ==
    LET after == IF source.kind = "None"
                 THEN {i \in SourcePairsLeft : \E j \in SourcePairsLeft : j < i}
                 ELSE SourcePairsLeft
    IN  IF after = {} THEN 0 ELSE CHOOSE i \in after : \A j \in after : i <= j
MalformedBeforeSecond ==
    \E i \in 1..Len(metas) : i < SecondSourceAt /\ Malformed(metas[i])

\* The text of the file a path names, whatever its extension.
TextAt(path) == read_to_string(fs, path)

\* A .pylink entry of directory dir whose trimmed content names a sibling
\* source file, with no file of its own stem and the source extension beside it.
SiblingOf(dir, name) == Append(dir, Trim(TextAt(Append(dir, name)).value))
LinksSiblingSource(dir, name) ==
    /\ IsLink(name)
    /\ TextAt(Append(dir, name)).some
    /\ Len(Components(Trim(TextAt(Append(dir, name)).value))) = 1
    /\ IsSource(FileName(SiblingOf(dir, name)))
    /\ TextAt(SiblingOf(dir, name)).some
    /\ ~TextAt(Append(dir, FileStem(name) \o ".py")).some

\* The file system with that .pylink file replaced by a copy of the sibling
\* under the name <stem>.py.
PlacedDirectly(dir, name) ==
    LET link == CHOOSE e \in fs.files : e.path = Canon(Append(dir, name))
        copy == [path |-> Canon(Append(dir, FileStem(name) \o ".py")),
                 text |-> TextAt(SiblingOf(dir, name)).value]
    IN  [fs EXCEPT !.files = (@ \ {link}) \cup {copy}]

\* What an iteration contributes to the bundle, or the error it ends with.
Outcome(e) ==
    [act |-> e.act, error |-> e.error, name |-> e.name, source |-> e.source,
     code |-> e.code, package |-> e.package]

---------------------------------------------------------------------------
(* The claims *)

\* C1: qualified names are unique within one bundle and a collision is a hard
\* error: whenever two units discovered in one walk derive the same qualified
\* name, compile returns an error, never a bundle in which one replaced the other.
C1_CollisionIsError ==
    pc = "ok" => \A u, v \in units : u.name = v.name => u = v

\* C2: for a dir request, every source file that is not an initializer gets
\* the dot-joined sequence of its path segments below the tree root as its
\* qualified name (lib/a/b/c.py gives a.b.c).
C2_DotJoinedNames ==
    (source.kind = "Dir" /\ NoLinks) =>
        \A u \in units :
            FileStem(FileName(u.path)) # "__init__" => u.name = DotJoin(RelStems(u))

\* C3: a file request that resolves to a directory gives the bundle of a dir
\* request on that directory: the names start from an empty prefix, whatever
\* module_name and the path are.
C3_FileFallbackAsDir ==
    (pc = "ok" /\ FellBack /\ NoLinks) =>
        DOMAIN bundle = {DirRequestName(u) : u \in units}

\* C4: in a directory walked with prefix P, a file of stem __init__ yields the
\* entry P with package = true and no entry P.__init__; any other source file
\* of stem s yields P.s (s when P is empty) with package = false; the bundle
\* returned holds such entries only. lib/a/__init__.py gives a, lib/a/b.py a.b.
C4_PackageRule ==
    Walked =>
        /\ \A u \in units :
              LET s == FileStem(FileName(u.path))
              IN  IF s = "__init__"
                  THEN u.name = u.parent /\ u.package
                  ELSE /\ u.name = (IF u.parent = "" THEN s ELSE u.parent \o "." \o s)
                       /\ ~u.package
        /\ pc = "ok" =>
              \A n \in DOMAIN bundle :
                  \E u \in units :
                      /\ u.name = n
                      /\ bundle[n].package = u.package
                      /\ bundle[n].code = CodeObject(u.source, u.mode, n)
        /\ (pc = "ok" /\ source.kind = "Dir" /\ NoLinks) =>
              \A u \in units :
                  /\ u.path = Append(DirA, "__init__.py") =>
                        "a" \in DOMAIN bundle /\ u.name = "a" /\ u.package
                  /\ u.path = Append(DirA, "b.py") =>
                        "a.b" \in DOMAIN bundle /\ ~bundle["a.b"].package

C4_Witness ==
    /\ pc = "ok"
    /\ source.kind = "Dir"
    /\ NoLinks
    /\ DOMAIN bundle = {"a", "a.b"}
    /\ bundle["a"].package
    /\ ~bundle["a.b"].package

\* C5 as claimed: an input with both a source key and a file key, in either
\* order and with any other keys around them, fails with the duplicate-source
\* error.
C5_DuplicateSourceAlways ==
    (Terminal /\ BothSourceAndFile) => (pc = "err" /\ error = DuplicateSource)

\* C5 as amended: such an input always fails and gives no bundle; the error is
\* the duplicate-source error unless a pair before the second source, file or
\* dir key is malformed, and then it is the error of that pair.
C5_DuplicateSource ==
    (Terminal /\ BothSourceAndFile) =>
        /\ pc = "err"
        /\ bundle = <<>>
        /\ IF MalformedBeforeSecond
           THEN Malformed(Head(metas)) /\ error # DuplicateSource
           ELSE error = DuplicateSource /\ SecondSourceAt = 1

C5_Witness ==
    /\ pc = "err"
    /\ error = DuplicateSource
    /\ source.kind = "File"
    /\ Len(metas) = 2
    /\ metas[1].ident = "source"
    /\ metas[2].ident = "mode"

\* C6: a .pylink file n.pylink whose trimmed content names a sibling source
\* file t gives what a copy of t placed beside it as n.py gives: the same
\* qualified name, source text, code and package flag, in every activation
\* that lists it; the unit compiled for it carries the text of t.
C6_LinkAsDirect ==
    /\ pc = "walk" =>
          \A name \in read_dir(fs, Top.path).value :
              LinksSiblingSource(Top.path, name) =>
                  Outcome(EntryEffect(fs, Top, name))
                      = Outcome(EntryEffect(PlacedDirectly(Top.path, name), Top,
                                            FileStem(name) \o ".py"))
    /\ Walked =>
          \A u \in units :
              LinksSiblingSource(ParentPath(u.path), FileName(u.path)) =>
                  /\ u.source = TextAt(SiblingOf(ParentPath(u.path), FileName(u.path))).value
                  /\ u.name = ModuleName(u.parent, FileStem(FileName(u.path)))

C6_Witness ==
    /\ pc = "ok"
    /\ source.kind = "Dir"
    /\ LinksSiblingSource(RequestPath, "b.pylink")
    /\ DOMAIN bundle = {"a", "b"}
    /\ bundle["b"].code.source = bundle["a"].code.source
    /\ bundle["b"].code.source = "x = 1"

\* A dir request returned the bundle of a directory that holds only .py
\* files and no sub-directory.
FlatSources ==
    /\ pc = "ok"
    /\ source.kind = "Dir"
    /\ \A n \in read_dir(fs, RequestPath).value :
          IsSource(n) /\ ~is_dir(fs, Append(RequestPath, n))

\* C7 as claimed: a directory holding only .py files and no sub-directory
\* gives a bundle whose names are exactly the stems of the files, a top-level
\* __init__.py included, and none of them the empty string.
C7_FlatDirStems ==
    FlatSources =>
        /\ DOMAIN bundle = {FileStem(n) : n \in read_dir(fs, RequestPath).value}
        /\ "" \notin DOMAIN bundle

\* C7 as amended: the names of the bundle are the stems of the files, except
\* that a top-level __init__.py gives the entry named by the empty starting
\* prefix, a package; the empty string is a name exactly when it is there.
C7_FlatDirNames ==
    FlatSources =>
        /\ DOMAIN bundle =
              {IF FileStem(n) = "__init__" THEN "" ELSE FileStem(n) :
                 n \in read_dir(fs, RequestPath).value}
        /\ \A n \in DOMAIN bundle : bundle[n].package = (n = "")
        /\ "" \in DOMAIN bundle <=> "__init__.py" \in read_dir(fs, RequestPath).value

C7_Witness ==
    /\ FlatSources
    /\ read_dir(fs, RequestPath).value = {"a.py", "__init__.py"}
    /\ DOMAIN bundle = {"", "a"}
    /\ bundle[""].package

\* C8 as claimed: the target of a .pylink file is classified like a listed
\* entry, so a unit is compiled for a .pylink file only when its target
\* has the source extension.
C8_TargetClassified ==
    Walked =>
        \A u \in units :
            IsLink(FileName(u.path)) =>
                IsSource(FileName(LinkTarget(u.path, TextAt(u.path).value)))

\* C8 as amended: the target of a .pylink file is classified only as a
\* directory or not. A directory is recursed into; any other target that can
\* be read, whatever its extension and a .pylink file included, has its text
\* compiled as source under the stem of the .pylink file; one that cannot be
\* read ends the walk with an error.
C8_TargetDirOrText ==
    /\ pc = "walk" =>
          \A name \in Top.todo :
              (IsLink(name) /\ TextAt(Append(Top.path, name)).some) =>
                  LET t == LinkTarget(Append(Top.path, name),
                                      TextAt(Append(Top.path, name)).value)
                      e == EntryEffect(fs, Top, name)
                  IN  IF is_dir(fs, t)
                      THEN e.act = "recurse" /\ e.filepath = t
                      ELSE IF TextAt(t).some
                      THEN /\ e.act \in {"insert", "error"}
                           /\ e.called
                           /\ e.source = TextAt(t).value
                           /\ e.name = ModuleName(Top.parent, FileStem(name))
                      ELSE e.act = "error" /\ ~e.called
    /\ Walked =>
          \A u \in units :
              IsLink(FileName(u.path)) =>
                  u.source = TextAt(LinkTarget(u.path, TextAt(u.path).value)).value

C8_Witness ==
    /\ pc = "ok"
    /\ source.kind = "Dir"
    /\ \E u \in units :
          /\ FileName(u.path) = "t.pylink"
          /\ u.source = "notes"
          /\ u.name = "t"
    /\ DOMAIN bundle = {"t"}
    /\ bundle["t"].code.source = "notes"

\* C9: the walk terminates: on every finite file system, .pylink files that
\* name their own directory or one above included, compile_dir returns a
\* bundle or an error; the recursion never descends without end.
C9_WalkReturns == pc # "overflow"

\* C10: the mode of the request (the mode key, Exec without one) is the mode
\* given to the external compiler for every unit, on every resolution path.
C10_RequestModeCompiled ==
    \A u \in units : u.mode = RequestMode

=============================================================================
